---- MODULE Spec2Model ----
(***************************************************************************)
(* A model of af_unix-rs (src/lib.rs): Unix-domain socket endpoints.       *)
(*                                                                         *)
(* The program is one thread calling the public operations of             *)
(* UnixDatagram.  Every operation that reaches the retry loop is modelled  *)
(* as the call action (checks, address encoding, socket creation) followed *)
(* by one RetryLoop step per iteration of the loop in retry(): each        *)
(* iteration is one blocking call into the operating system, whose outcome *)
(* is chosen by the environment.  The step on which the loop returns also  *)
(* runs the rest of the operation and produces its result.                 *)
(***************************************************************************)
EXTENDS Integers, Sequences, FiniteSets

\* ---------------------------------------------------------------- bounds
MaxFds == 2       \* descriptors the process may hold open (RLIMIT_NOFILE)
MaxBuf == 2       \* longest caller buffer
MaxIntr == 2      \* signal interruptions delivered during one operation
MaxShort == 0     \* path lengths 0..MaxShort are tried
MaxOver == 1      \* path lengths up to capacity + MaxOver are tried
MaxScript == 2    \* longest script of outcomes of the stub
MaxQueue == 1     \* datagrams the kernel holds queued

\* ------------------------------------------------------ platform constants
SunPathLen == 108     \* s.sun_path.len(), the native path field
SaFamilySize == 2     \* mem::size_of::<libc::sa_family_t>()
AF_UNIX == 1
SOCK_STREAM == 1
SOCK_DGRAM == 2
SOCK_SEQPACKET == 5   \* the literal of lib.rs:128

EOK == "0"
EINTR == "EINTR"
ECONNREFUSED == "ECONNREFUSED"
EADDRINUSE == "EADDRINUSE"
EMFILE == "EMFILE"

\* io::ErrorKind of a returned error; "Os" is an error made by last_os_error
InvalidInput == "InvalidInput"
OsError == "Os"

MsgNul == "data provided contains a nul byte"
MsgSunLen == "path must be smaller than SUN_LEN"
MsgRecv == "must call connect() before calling recv()"
MsgSend == "must call connect() before calling send()"
MsgShort == "couldn't send entire packet at once"

\* ------------------------------------------------------------ input sets
SockTypes == {"Stream", "Dgram", "Seqpacket"}
Bytes == {0, 255}
Bufs == UNION {[1..n -> Bytes] : n \in 0..MaxBuf}

PathLens == (0..MaxShort) \cup ((SunPathLen - 1 - MaxShort)..(SunPathLen + MaxOver))

\* a path of length L of the byte 'a', with a NUL byte at position z (0: none)
MkPath(L, z) == [i \in 1..L |-> IF i = z THEN 0 ELSE 97]

Paths == {MkPath(L, z) : L \in PathLens, z \in {0, 1, SunPathLen + MaxOver}}

HasNul(s) == \E i \in 1..Len(s) : s[i] = 0

\* --------------------------------------------------------------- results
Ok(v) == [ok |-> TRUE, kind |-> "Ok", code |-> EOK, msg |-> "", val |-> v]

Err(kind, msg) == [ok |-> FALSE, kind |-> kind, code |-> EOK, msg |-> msg, val |-> 0]

\* Error::last_os_error(): the error of the errno value e read at that moment
last_error(e) == [ok |-> FALSE, kind |-> OsError, code |-> e, msg |-> "", val |-> 0]

NoResult == [ok |-> TRUE, kind |-> "None", code |-> EOK, msg |-> "", val |-> 0]

VARIABLES
    socks,    \* the UnixDatagram objects made so far: [fd, connected]
    origin,   \* for each object, the constructor that made it
    opened,   \* the descriptors open in the process
    errno,    \* the thread's errno
    pc,       \* "idle"; "retry" inside the loop of retry(); "done" when the
              \* operation has returned and its caller holds the result
    call,     \* the operation running or just finished, with its locals
    sys,      \* the system calls it has issued, in order, with their outcome
    buf,      \* the caller's buffer of the operation
    pre,      \* the descriptors that were open when the operation started
    result,   \* what the last finished operation returned
    twin,     \* two runs of retry() against one script of outcomes
    net,      \* the kernel's datagram sockets: bound names and queues
    trip      \* what the caller has sent and not yet read, by path

prog == <<socks, origin, opened, errno, pc, call, sys, buf, pre, result>>

vars == <<socks, origin, opened, errno, pc, call, sys, buf, pre, result,
          twin, net, trip>>

\* ------------------------------------------------------- address encoding
\* a conversion that lets an interior NUL byte through
CStringNew_unchecked(s) == Ok(s)

\* CString::new(addr): an interior NUL byte is a NulError, which try! turns
\* into an io::Error of kind InvalidInput
CStringNew(s) == IF HasNul(s) THEN Err(InvalidInput, MsgNul) ELSE Ok(s)

\* `*value as i8`
AsI8(b) == IF b >= 128 THEN b - 256 ELSE b

\* the test off by one, refusing the longest path that fits
TooLong_strict(len) == len >= SunPathLen - 1

\* the test without the room for the null terminator
TooLong_noterm(len) == len > SunPathLen

\* the test of lib.rs:67
TooLong(len) == len > SunPathLen - 1

\* the length of lib.rs:77: family tag, path and the null terminator
SockLen(len) == SaFamilySize + len + 1

\* addr_to_sockaddr_un: the zeroed storage with family and path written into
\* it, and the effective length
addr_to_sockaddr_un(addr) ==
    LET len == Len(addr) IN
    IF TooLong(len)
    THEN Err(InvalidInput, MsgSunLen)
    ELSE Ok([storage |-> [sun_family |-> AF_UNIX,
                          sun_path |-> [i \in 1..SunPathLen |->
                                          IF i <= len THEN AsI8(addr[i]) ELSE 0]],
             len |-> SockLen(len)])

NoAddr == [storage |-> [sun_family |-> 0, sun_path |-> <<>>], len |-> 0]

\* the match on SockType of lib.rs:125-129 and 140-144
CTy(ty) ==
    CASE ty = "Stream" -> SOCK_STREAM
      [] ty = "Dgram" -> SOCK_DGRAM
      [] ty = "Seqpacket" -> SOCK_SEQPACKET

\* ---------------------------------------------------- the operating system
\* A system call returns -1 and sets errno, or returns its value and leaves
\* errno alone.
Fail(e) == [ret |-> -1, err |-> e, data |-> <<>>]

Done(n, d) == [ret |-> n, err |-> EOK, data |-> d]

\* interruptions delivered so far in the running operation
NIntr == Cardinality({i \in 1..Len(sys) : sys[i].ret = -1 /\ sys[i].err = EINTR})

Intr == IF NIntr < MaxIntr THEN {Fail(EINTR)} ELSE {}

\* the lowest descriptor that is not open
LowestFree == CHOOSE fd \in 0..MaxFds : fd \notin opened /\ \A g \in 0..(fd - 1) : g \in opened

\* libc::socket(AF_UNIX, ty, 0)
SocketOutcomes ==
    {Fail(EMFILE)} \cup
    (IF Cardinality(opened) < MaxFds THEN {Done(LowestFree, <<>>)} ELSE {})

\* libc::bind, the first call into the kernel that can block in its operation
BindOutcomes == {Fail(EADDRINUSE), Fail(EINTR), Done(0, <<>>)}

\* the call wrapped by retry in operation op, on a buffer of blen bytes
Outcomes(op, blen) ==
    Intr \cup {Fail(ECONNREFUSED)} \cup
    CASE op = "connect" -> {Done(0, <<>>)}
      [] op \in {"recv", "recvfrom"} ->
            UNION {{Done(n, d) : d \in [1..n -> Bytes]} : n \in 0..blen}
      [] op \in {"send", "sendto"} -> {Done(n, <<>>) : n \in 0..blen}

\* errno after a system call with outcome out
ErrnoAfter(out) == IF out.ret = -1 THEN out.err ELSE errno

SysRec(name, fd, out) ==
    [name |-> name, fd |-> fd, ret |-> out.ret, err |-> ErrnoAfter(out)]

\* the buffer after the kernel has stored out.data at its start
Filled(b, out) ==
    [i \in 1..Len(b) |-> IF i <= Len(out.data) THEN out.data[i] ELSE b[i]]

\* ------------------------------------------------------------ the program
NoCall == [op |-> "none", self |-> 0, ty |-> 0, path |-> <<>>,
           addr |-> NoAddr, fd |-> -1, ret |-> 0]

NoRun == [errno |-> EOK, n |-> 0, ret |-> 0, done |-> FALSE]

NoTwin == [script |-> <<>>, a |-> NoRun, b |-> NoRun]

\* the process before any call
Boot ==
    /\ socks = <<>>
    /\ origin = <<>>
    /\ opened = {}
    /\ errno = EOK
    /\ pc = "idle"
    /\ call = NoCall
    /\ sys = <<>>
    /\ buf = <<>>
    /\ pre = {}
    /\ result = NoResult

Fds == 0..(MaxFds - 1)

\* no socket has a name, no datagram is queued
NoNet == [name |-> [fd \in Fds |-> <<>>], queue |-> [fd \in Fds |-> <<>>]]

RTPaths == {MkPath(1, 0), MkPath(SunPathLen - 1, 0)}

NoTrip == [at |-> <<>>, mirror |-> [p \in RTPaths |-> <<>>], expect |-> <<>>]

Init == Boot /\ twin = NoTwin /\ net = NoNet /\ trip = NoTrip

Frame(op, self, ty, path, addr, fd, ret) ==
    [op |-> op, self |-> self, ty |-> ty, path |-> path,
     addr |-> addr, fd |-> fd, ret |-> ret]

\* an early return that wipes the caller's buffer on its way out
Reject_scrub(op, self, ty, path, b, r) ==
    /\ pc' = "done"
    /\ call' = Frame(op, self, ty, path, NoAddr, IF self = 0 THEN -1 ELSE socks[self].fd, 0)
    /\ sys' = <<>>
    /\ buf' = [i \in 1..Len(b) |-> 0]
    /\ pre' = opened
    /\ result' = r
    /\ UNCHANGED <<socks, origin, opened, errno>>

\* an operation that returns r before it has issued any system call
Reject(op, self, ty, path, b, r) ==
    /\ pc' = "done"
    /\ call' = Frame(op, self, ty, path, NoAddr, IF self = 0 THEN -1 ELSE socks[self].fd, 0)
    /\ sys' = <<>>
    /\ buf' = b
    /\ pre' = opened
    /\ result' = r
    /\ UNCHANGED <<socks, origin, opened, errno>>

\* an operation that enters the loop of retry() with nothing issued yet
Enter(op, self, path, addr, b) ==
    /\ pc' = "retry"
    /\ call' = Frame(op, self, 0, path, addr, socks[self].fd, 0)
    /\ sys' = <<>>
    /\ buf' = b
    /\ pre' = opened
    /\ result' = NoResult
    /\ UNCHANGED <<socks, origin, opened, errno>>

\* the objects built at lib.rs:133-136 and lib.rs:148-151
ConnectedSocket(fd) == [fd |-> fd, connected |-> TRUE]

\* bind building the object that connect builds
BoundSocket_connected(fd) == [fd |-> fd, connected |-> TRUE]

BoundSocket(fd) == [fd |-> fd, connected |-> FALSE]

\* recv and send without the test
NotConnected_never(self) == FALSE

\* `if !self.connected` of recv and send
NotConnected(self) == ~self.connected

\* the arm without its pattern -1: any result is dropped when err is EINTR
Again_any_result(n, err) == err = EINTR

\* the arm `-1 if err == libc::EINTR => {}` of retry: n is what f() returned,
\* err is what errno() returned before f() was called
Again(n, err) == n = -1 /\ err = EINTR

\* the match of connect() on what retry returned
connect_result(n, fd, e) == IF n = -1 THEN last_error(e) ELSE Ok(fd)

\* `if ret < 0 { return Err(last_error()) }  Ok(ret as usize)` of recv, recvfrom
recv_result(ret, e) == IF ret < 0 THEN last_error(e) ELSE Ok(ret)

\* send and sendto without the arm for a short count
send_result_lenient(ret, e, blen) == IF ret = -1 THEN last_error(e) ELSE Ok(0)

\* the match of send and sendto on what retry returned.  The count the kernel
\* reports lies in 0..blen and blen <= MaxBuf, so the casts `as libc::c_int`
\* and `as usize` keep its value.
send_result(ret, e, blen) ==
    IF ret = -1 THEN last_error(e)
    ELSE IF ret # blen THEN Err(InvalidInput, MsgShort)
    ELSE Ok(0)

\* connect creating the socket before it has encoded the address
Connect_socket_first(addr, ty) ==
    /\ pc = "idle"
    /\ LET c_ty == CTy(ty)
           c_addr == CStringNew(addr)
           a == addr_to_sockaddr_un(c_addr.val)
       IN  \E out \in SocketOutcomes :
              /\ sys' = <<SysRec("socket", out.ret, out)>>
              /\ errno' = ErrnoAfter(out)
              /\ buf' = <<>>
              /\ pre' = opened
              /\ UNCHANGED <<socks, origin>>
              /\ opened' = IF out.ret = -1 THEN opened ELSE opened \cup {out.ret}
              /\ IF out.ret = -1
                 THEN /\ pc' = "done"
                      /\ result' = last_error(out.err)
                      /\ call' = Frame("connect", 0, c_ty, addr, NoAddr, out.ret, 0)
                 ELSE IF ~c_addr.ok
                 THEN /\ pc' = "done"
                      /\ result' = c_addr
                      /\ call' = Frame("connect", 0, c_ty, addr, NoAddr, out.ret, 0)
                 ELSE IF ~a.ok
                 THEN /\ pc' = "done"
                      /\ result' = a
                      /\ call' = Frame("connect", 0, c_ty, addr, NoAddr, out.ret, 0)
                 ELSE /\ pc' = "retry"
                      /\ result' = NoResult
                      /\ call' = Frame("connect", 0, c_ty, addr, a.val, out.ret, 0)

\* UnixDatagram::connect, up to the loop of retry() in connect()
Connect(addr, ty) ==
    /\ pc = "idle"
    /\ LET c_ty == CTy(ty)
           c_addr == CStringNew(addr)
           a == addr_to_sockaddr_un(c_addr.val)
       IN  IF ~c_addr.ok THEN Reject("connect", 0, c_ty, addr, <<>>, c_addr)
           ELSE IF ~a.ok THEN Reject("connect", 0, c_ty, addr, <<>>, a)
           ELSE \E out \in SocketOutcomes :
                  /\ sys' = <<SysRec("socket", out.ret, out)>>
                  /\ errno' = ErrnoAfter(out)
                  /\ buf' = <<>>
                  /\ pre' = opened
                  /\ UNCHANGED <<socks, origin>>
                  /\ call' = Frame("connect", 0, c_ty, addr, a.val, out.ret, 0)
                  /\ IF out.ret = -1
                     THEN /\ pc' = "done"
                          /\ result' = last_error(out.err)
                          /\ opened' = opened
                     ELSE /\ pc' = "retry"
                          /\ result' = NoResult
                          /\ opened' = opened \cup {out.ret}

\* bind issuing the bind call a second time when the first was interrupted
Bind_retried(addr, ty) ==
    /\ pc = "idle"
    /\ LET c_ty == CTy(ty)
           c_addr == CStringNew(addr)
           a == addr_to_sockaddr_un(c_addr.val)
       IN  IF ~c_addr.ok THEN Reject("bind", 0, c_ty, addr, <<>>, c_addr)
           ELSE IF ~a.ok THEN Reject("bind", 0, c_ty, addr, <<>>, a)
           ELSE \E out \in SocketOutcomes :
                  /\ pc' = "done"
                  /\ buf' = <<>>
                  /\ pre' = opened
                  /\ IF out.ret = -1
                     THEN /\ sys' = <<SysRec("socket", out.ret, out)>>
                          /\ errno' = out.err
                          /\ call' = Frame("bind", 0, c_ty, addr, a.val, out.ret, 0)
                          /\ result' = last_error(out.err)
                          /\ UNCHANGED <<socks, origin, opened>>
                     ELSE \E b1 \in BindOutcomes, b2 \in BindOutcomes :
                            LET again == b1.ret = -1 /\ b1.err = EINTR
                                b == IF again THEN b2 ELSE b1
                            IN
                            /\ ~again => b2 = b1
                            /\ sys' = <<SysRec("socket", out.ret, out),
                                        SysRec("bind", out.ret, b1)>>
                                       \o (IF again THEN <<SysRec("bind", out.ret, b2)>>
                                           ELSE <<>>)
                            /\ errno' = ErrnoAfter(b)
                            /\ call' = Frame("bind", 0, c_ty, addr, a.val, out.ret, b.ret)
                            /\ opened' = opened \cup {out.ret}
                            /\ IF b.ret = -1
                               THEN /\ result' = last_error(b.err)
                                    /\ UNCHANGED <<socks, origin>>
                               ELSE /\ result' = Ok(out.ret)
                                    /\ socks' = Append(socks, BoundSocket(out.ret))
                                    /\ origin' = Append(origin, "bind")

\* UnixDatagram::bind with bind(): the bind call is issued once, outside retry
Bind(addr, ty) ==
    /\ pc = "idle"
    /\ LET c_ty == CTy(ty)
           c_addr == CStringNew(addr)
           a == addr_to_sockaddr_un(c_addr.val)
       IN  IF ~c_addr.ok THEN Reject("bind", 0, c_ty, addr, <<>>, c_addr)
           ELSE IF ~a.ok THEN Reject("bind", 0, c_ty, addr, <<>>, a)
           ELSE \E out \in SocketOutcomes :
                  /\ pc' = "done"
                  /\ buf' = <<>>
                  /\ pre' = opened
                  /\ IF out.ret = -1
                     THEN /\ sys' = <<SysRec("socket", out.ret, out)>>
                          /\ errno' = out.err
                          /\ call' = Frame("bind", 0, c_ty, addr, a.val, out.ret, 0)
                          /\ result' = last_error(out.err)
                          /\ UNCHANGED <<socks, origin, opened>>
                     ELSE \E b \in BindOutcomes :
                            /\ sys' = <<SysRec("socket", out.ret, out),
                                        SysRec("bind", out.ret, b)>>
                            /\ errno' = ErrnoAfter(b)
                            /\ call' = Frame("bind", 0, c_ty, addr, a.val, out.ret, b.ret)
                            /\ opened' = opened \cup {out.ret}
                            /\ IF b.ret = -1
                               THEN /\ result' = last_error(b.err)
                                    /\ UNCHANGED <<socks, origin>>
                               ELSE /\ result' = Ok(out.ret)
                                    /\ socks' = Append(socks, BoundSocket(out.ret))
                                    /\ origin' = Append(origin, "bind")

\* UnixDatagram::recv up to the loop of retry()
Recv(i, b) ==
    /\ pc = "idle"
    /\ IF NotConnected(socks[i])
       THEN Reject("recv", i, 0, <<>>, b, Err(InvalidInput, MsgRecv))
       ELSE Enter("recv", i, <<>>, NoAddr, b)

\* recvfrom with the test of recv copied into it
Recvfrom_gated(i, b) ==
    /\ pc = "idle"
    /\ IF ~socks[i].connected
       THEN Reject("recvfrom", i, 0, <<>>, b, Err(InvalidInput, MsgRecv))
       ELSE Enter("recvfrom", i, <<>>, NoAddr, b)

\* UnixDatagram::recvfrom up to the loop of retry()
Recvfrom(i, b) ==
    /\ pc = "idle"
    /\ Enter("recvfrom", i, <<>>, NoAddr, b)

\* UnixDatagram::send up to the loop of retry()
Send(i, b) ==
    /\ pc = "idle"
    /\ IF NotConnected(socks[i])
       THEN Reject("send", i, 0, <<>>, b, Err(InvalidInput, MsgSend))
       ELSE Enter("send", i, <<>>, NoAddr, b)

\* UnixDatagram::sendto up to the loop of retry()
Sendto(i, b, dst) ==
    /\ pc = "idle"
    /\ LET c_dst == CStringNew(dst)
           a == addr_to_sockaddr_un(c_dst.val)
       IN  IF ~c_dst.ok THEN Reject("sendto", i, 0, dst, b, c_dst)
           ELSE IF ~a.ok THEN Reject("sendto", i, 0, dst, b, a)
           ELSE Enter("sendto", i, dst, a.val, b)

\* what the operation returns once retry has returned n with errno e
Finish(op, n, e) ==
    CASE op = "connect" -> connect_result(n, call.fd, e)
      [] op \in {"recv", "recvfrom"} -> recv_result(n, e)
      [] op \in {"send", "sendto"} -> send_result(n, e, Len(buf))

\* One iteration of the loop of retry(): errno is read, then f() is called,
\* then the value f() returned is matched against -1 and the errno read before.
\* When the loop returns, the rest of the operation runs in the same step.
RetryLoop ==
    /\ pc = "retry"
    /\ LET err == errno IN
       \E out \in Outcomes(call.op, Len(buf)) :
          /\ sys' = Append(sys, SysRec(call.op, call.fd, out))
          /\ errno' = ErrnoAfter(out)
          /\ buf' = IF call.op \in {"recv", "recvfrom"} /\ out.ret >= 0
                    THEN Filled(buf, out) ELSE buf
          /\ UNCHANGED <<opened, pre>>
          /\ IF Again(out.ret, err)
             THEN UNCHANGED <<pc, call, result, socks, origin>>
             ELSE /\ pc' = "done"
                  /\ call' = [call EXCEPT !.ret = out.ret]
                  /\ result' = Finish(call.op, out.ret, ErrnoAfter(out))
                  /\ IF call.op = "connect" /\ out.ret # -1
                     THEN /\ socks' = Append(socks, ConnectedSocket(call.fd))
                          /\ origin' = Append(origin, "connect")
                     ELSE UNCHANGED <<socks, origin>>

\* The caller has taken the result: the frame of the operation is gone, the
\* objects, the descriptors and errno stay.
Return ==
    /\ pc = "done"
    /\ pc' = "idle"
    /\ call' = NoCall
    /\ sys' = <<>>
    /\ buf' = <<>>
    /\ pre' = opened
    /\ result' = NoResult
    /\ UNCHANGED <<socks, origin, opened, errno>>

Next ==
    \/ \E addr \in Paths, ty \in SockTypes : Connect(addr, ty) /\ UNCHANGED <<twin, net, trip>>
    \/ \E addr \in Paths, ty \in SockTypes : Bind(addr, ty) /\ UNCHANGED <<twin, net, trip>>
    \/ \E i \in DOMAIN socks, b \in Bufs : Recv(i, b) /\ UNCHANGED <<twin, net, trip>>
    \/ \E i \in DOMAIN socks, b \in Bufs : Recvfrom(i, b) /\ UNCHANGED <<twin, net, trip>>
    \/ \E i \in DOMAIN socks, b \in Bufs : Send(i, b) /\ UNCHANGED <<twin, net, trip>>
    \/ \E i \in DOMAIN socks, b \in Bufs, dst \in Paths :
          Sendto(i, b, dst) /\ UNCHANGED <<twin, net, trip>>
    \/ RetryLoop /\ UNCHANGED <<twin, net, trip>>
    \/ Return /\ UNCHANGED <<twin, net, trip>>

Spec == Init /\ [][Next]_vars

\* ------------------------------------------ retry() run twice on one script
\* The closure f as a stub: its k-th invocation has the k-th outcome of the
\* script.  Two runs of retry() consume the same script, each from its own
\* leftover errno.
StubOutcomes == {Fail(EINTR), Fail(ECONNREFUSED), Done(0, <<>>)}

Scripts == UNION {[1..n -> StubOutcomes] : n \in 1..MaxScript}

LeftoverErrnos == {EOK, EINTR, ECONNREFUSED}

InitTwin ==
    /\ Boot
    /\ net = NoNet
    /\ trip = NoTrip
    /\ twin \in {[script |-> s,
                  a |-> [NoRun EXCEPT !.errno = ea],
                  b |-> [NoRun EXCEPT !.errno = eb]] :
                    s \in Scripts, ea \in LeftoverErrnos, eb \in LeftoverErrnos}

\* one iteration of the loop of retry() in run r
TwinStep(r) ==
    /\ ~twin[r].done
    /\ twin[r].n < Len(twin.script)
    /\ LET err == twin[r].errno
           out == twin.script[twin[r].n + 1]
       IN  twin' = [twin EXCEPT ![r] =
                      [errno |-> IF out.ret = -1 THEN out.err ELSE err,
                       n |-> twin[r].n + 1,
                       ret |-> out.ret,
                       done |-> ~Again(out.ret, err)]]
    /\ UNCHANGED <<prog, net, trip>>

NextTwin == \E r \in {"a", "b"} : TwinStep(r)

SpecTwin == InitTwin /\ [][NextTwin]_vars

\* ------------------------------------- datagram endpoints of one process
\* The kernel side of the calls for SOCK_DGRAM sockets when every peer is an
\* endpoint of this process: a bound socket has a name and a queue, sendto
\* appends the whole datagram to the queue of the socket that has the name of
\* the address, recvfrom takes the oldest datagram of the socket's own queue
\* and stores as much of it as the buffer holds.  Any call may still fail.

\* the name the kernel reads from an address: the bytes of sun_path that the
\* length covers
KName(addr) == SubSeq(addr.storage.sun_path, 1, addr.len - SaFamilySize)

Queued == Cardinality({x \in Fds \X (1..MaxQueue) : x[2] <= Len(net.queue[x[1]])})

Named(addr) == {fd \in Fds : net.name[fd] = KName(addr)}

\* the bind call of a Bind step: it succeeds only on a name that is free
NetBind ==
    IF Len(sys') = 2 /\ sys'[2].ret # -1
    THEN /\ Named(call'.addr) = {}
         /\ net' = [net EXCEPT !.name[call'.fd] = KName(call'.addr)]
         /\ trip' = [trip EXCEPT !.at = Append(@, call'.path)]
    ELSE UNCHANGED <<net, trip>>

\* the call issued by a RetryLoop step, and what the caller knows once the
\* operation has returned Ok
NetRetry ==
    LET r == sys'[Len(sys')]
        returned == pc' = "done" /\ result'.ok
    IN  CASE call.op = "connect" ->
               /\ r.ret # -1 => Named(call.addr) # {}
               /\ net' = net
               /\ trip' = IF returned
                          THEN [trip EXCEPT !.at = Append(@, call.path)]
                          ELSE trip
          [] call.op = "sendto" ->
               /\ IF r.ret = -1
                  THEN net' = net
                  ELSE /\ r.ret = Len(buf)
                       /\ Queued < MaxQueue
                       /\ \E fd \in Named(call.addr) :
                             net' = [net EXCEPT !.queue[fd] = Append(@, buf)]
               /\ trip' = IF returned
                          THEN [trip EXCEPT !.mirror[call.path] = Append(@, buf)]
                          ELSE trip
          [] call.op = "recvfrom" ->
               /\ IF r.ret = -1
                  THEN net' = net
                  ELSE /\ net.queue[call.fd] # <<>>
                       /\ LET d == Head(net.queue[call.fd]) IN
                          /\ r.ret = (IF Len(d) < Len(buf) THEN Len(d) ELSE Len(buf))
                          /\ buf' = [i \in 1..Len(buf) |->
                                      IF i <= r.ret THEN d[i] ELSE buf[i]]
                       /\ net' = [net EXCEPT !.queue[call.fd] = Tail(@)]
               /\ trip' = IF returned /\ origin[call.self] = "bind"
                          THEN LET P == trip.at[call.self] IN
                               IF trip.mirror[P] = <<>>
                               THEN [trip EXCEPT !.expect = <<>>]
                               ELSE [trip EXCEPT !.expect = <<Head(trip.mirror[P])>>,
                                                 !.mirror[P] = Tail(@)]
                          ELSE trip

\* the payloads of the callers of sendto: one of each length, no two bytes in
\* a row alike; the buffers of the callers of recvfrom: zeroed, of each length
RTPayloads == {b \in Bufs : \A i \in 1..Len(b) : b[i] = (IF i % 2 = 1 THEN 255 ELSE 0)}

RTBuffers == {b \in Bufs : \A i \in 1..Len(b) : b[i] = 0}

NextRT ==
    \/ \E addr \in RTPaths : Connect(addr, "Dgram") /\ UNCHANGED <<twin, net, trip>>
    \/ \E addr \in RTPaths : Bind(addr, "Dgram") /\ NetBind /\ UNCHANGED twin
    \/ \E i \in DOMAIN socks, b \in RTBuffers :
          Recvfrom(i, b) /\ UNCHANGED <<twin, net, trip>>
    \/ \E i \in DOMAIN socks, b \in RTPayloads, dst \in RTPaths :
          Sendto(i, b, dst) /\ UNCHANGED <<twin, net, trip>>
    \/ RetryLoop /\ NetRetry /\ UNCHANGED twin
    \/ Return /\ trip' = [trip EXCEPT !.expect = <<>>] /\ UNCHANGED <<twin, net>>

SpecRT == Init /\ [][NextRT]_vars

\* ------------------------------------------------------------ properties
RetryOps == {"connect", "recv", "recvfrom", "send", "sendto"}

AddrOps == {"connect", "bind", "sendto"}

\* the invocations of the closure f by retry() in the operation
Invocations == SelectSeq(sys, LAMBDA r : r.name = call.op)

Interrupted(r) == r.ret = -1 /\ r.err = EINTR

ValidPath(s) == ~HasNul(s) /\ Len(s) <= SunPathLen - 1

\* C1: when the wrapped call fails with "interrupted" k times and then
\* succeeds (it never fails for another reason), retry returns the value of
\* the successful invocation, which is its invocation k+1, whatever errno was
\* before the operation.
C1_RetryInterruptedThenSuccess ==
    (/\ pc = "done"
     /\ call.op \in RetryOps
     /\ Invocations # <<>>
     /\ \A i \in 1..Len(Invocations) :
           Interrupted(Invocations[i]) \/ Invocations[i].ret # -1)
    => LET k == Cardinality({i \in 1..Len(Invocations) : Interrupted(Invocations[i])})
       IN  /\ Len(Invocations) = k + 1
           /\ Invocations[k + 1].ret # -1
           /\ call.ret = Invocations[k + 1].ret

\* C2: connect, recv, recvfrom, send and sendto never return an error whose
\* cause is signal interruption.
C2_NeverReportsInterrupted ==
    (pc = "done" /\ call.op \in RetryOps)
    => ~(~result.ok /\ result.kind = OsError /\ result.code = EINTR)

\* C3: recv and send on an endpoint made by bind fail with InvalidInput,
\* without a system call, for every buffer and whatever happened before.
C3_BoundRecvSendInvalidInput ==
    (call.op \in {"recv", "send"} /\ origin[call.self] = "bind")
    => /\ pc = "done"
       /\ ~result.ok
       /\ result.kind = InvalidInput
       /\ result.msg = (IF call.op = "recv" THEN MsgRecv ELSE MsgSend)
       /\ sys = <<>>

C3_Witness ==
    /\ pc = "done"
    /\ call.op = "send"
    /\ origin[call.self] = "bind"
    /\ Len(buf) = MaxBuf
    /\ errno = EINTR
    /\ result.kind = InvalidInput

\* C4: an endpoint's connected flag is true exactly when connect made it and
\* false exactly when bind made it, in every state, so no operation changes it.
C4_ConnectedFlagFixed ==
    /\ DOMAIN origin = DOMAIN socks
    /\ \A i \in DOMAIN socks :
          /\ origin[i] \in {"connect", "bind"}
          /\ socks[i].connected <=> origin[i] = "connect"
          /\ ~socks[i].connected <=> origin[i] = "bind"

C4_Witness ==
    /\ pc = "done"
    /\ call.op \in {"recv", "recvfrom", "send", "sendto"}
    /\ sys # <<>>
    /\ \E i, j \in DOMAIN socks :
          /\ origin[i] = "connect" /\ socks[i].connected
          /\ origin[j] = "bind" /\ ~socks[j].connected

\* C5: when connect or bind returns an error, the descriptors open are the
\* ones that were open before the call: the handle it opened is closed.
C5_FailedConstructionClosesHandle ==
    (pc = "done" /\ call.op \in {"connect", "bind"} /\ ~result.ok)
    => opened = pre

\* C6: a NUL-free path of length L <= capacity - 1 is encoded, with effective
\* length tag size + L + 1; L = capacity - 1 is accepted.
C6_EncodeLength ==
    (call.op \in AddrOps /\ ValidPath(call.path))
    => /\ call.addr # NoAddr
       /\ call.addr.len = SaFamilySize + Len(call.path) + 1
       /\ result.kind # InvalidInput \/ result.msg = MsgShort

C6_Witness ==
    /\ pc = "done"
    /\ call.op = "sendto"
    /\ ~HasNul(call.path)
    /\ Len(call.path) = SunPathLen - 1
    /\ call.addr.len = SaFamilySize + SunPathLen
    /\ result.ok

\* C7: for a path of length >= capacity, connect, bind and sendto fail with
\* InvalidInput without any system call, and no address is built from it.
C7_TooLongRejectedBeforeSyscall ==
    (call.op \in AddrOps /\ Len(call.path) >= SunPathLen)
    => /\ pc = "done"
       /\ ~result.ok
       /\ result.kind = InvalidInput
       /\ sys = <<>>
       /\ opened = pre
       /\ call.addr = NoAddr

C7_Witness ==
    /\ pc = "done"
    /\ call.op = "connect"
    /\ ~HasNul(call.path)
    /\ Len(call.path) = SunPathLen
    /\ result.msg = MsgSunLen
    /\ sys = <<>>

\* C8: a path with an embedded NUL byte makes connect, bind and sendto fail
\* with InvalidInput before any system call, and with the error of the NUL
\* test whatever the length of the path.
C8_NulRejectedFirst ==
    (call.op \in AddrOps /\ HasNul(call.path))
    => /\ pc = "done"
       /\ result = Err(InvalidInput, MsgNul)
       /\ sys = <<>>

C8_Witness ==
    /\ pc = "done"
    /\ call.op = "bind"
    /\ HasNul(call.path)
    /\ Len(call.path) > SunPathLen
    /\ result.msg = MsgNul

\* C9: a send or sendto that reached the kernel returns Ok exactly when the
\* last count reported equals the buffer length; on a smaller count it
\* returns InvalidInput and the call is not issued again.
C9_ShortSendIsError ==
    (pc = "done" /\ call.op \in {"send", "sendto"} /\ sys # <<>>)
    => LET n == sys[Len(sys)].ret IN
       /\ result.ok <=> n = Len(buf)
       /\ (n >= 0 /\ n < Len(buf)) => result = Err(InvalidInput, MsgShort)
       /\ \A i \in 1..(Len(sys) - 1) : sys[i].ret = -1

C9_Witness ==
    /\ pc = "done"
    /\ call.op = "send"
    /\ Len(buf) = MaxBuf
    /\ sys # <<>>
    /\ sys[Len(sys)].ret = MaxBuf - 1
    /\ result.msg = MsgShort

\* C10: recvfrom and sendto never fail with the error of the connection
\* mode, and (sendto: with a valid path) they reach their system call on
\* connected and on bound endpoints alike.
C10_RecvfromSendtoEitherState ==
    (call.op \in {"recvfrom", "sendto"})
    => /\ result.msg \notin {MsgRecv, MsgSend}
       /\ (call.op = "recvfrom" \/ ValidPath(call.path))
          => /\ pc \in {"retry", "done"}
             /\ pc = "done" => (sys # <<>> /\ \A i \in 1..Len(sys) : sys[i].name = call.op)

C10_Witness ==
    /\ pc = "done"
    /\ call.op = "recvfrom"
    /\ origin[call.self] = "bind"
    /\ result.ok
    /\ result.val = MaxBuf

\* C13: when the first invocation of the wrapped call succeeds, or fails for
\* a reason other than interruption, retry returns what it returned and has
\* invoked it once, whatever errno earlier operations left.
C13_NotInterruptedPassesThrough ==
    (/\ pc = "done"
     /\ call.op \in RetryOps
     /\ Invocations # <<>>
     /\ ~Interrupted(Invocations[1]))
    => /\ Len(Invocations) = 1
       /\ call.ret = Invocations[1].ret

\* C15: connect encodes, then creates the socket, then issues the connect
\* call; it stops at the first stage that fails and returns the error of that
\* stage: no socket after a failed encoding, no connect call after a failed
\* socket creation.
C15_ConnectStagesInOrder ==
    (call.op = "connect")
    => /\ ~ValidPath(call.path)
          => (pc = "done" /\ sys = <<>> /\ ~result.ok /\ result.kind = InvalidInput)
       /\ sys # <<>>
          => /\ sys[1].name = "socket"
             /\ \A i \in 2..Len(sys) : sys[i].name = "connect" /\ sys[1].ret # -1
       /\ (sys # <<>> /\ sys[1].ret = -1)
          => (pc = "done" /\ Len(sys) = 1 /\ result = last_error(sys[1].err))
       /\ (pc = "done" /\ Len(sys) > 1)
          => IF sys[Len(sys)].ret = -1
             THEN result = last_error(sys[Len(sys)].err)
             ELSE result = Ok(call.fd)

C15_Witness ==
    /\ pc = "done"
    /\ call.op = "connect"
    /\ ValidPath(call.path)
    /\ Len(sys) = 1
    /\ sys[1].name = "socket"
    /\ result = last_error(EMFILE)
    /\ opened # {}

\* C16: a call of bind issues at most one bind system call; when that call
\* is interrupted, bind returns its error instead of issuing it again.
C16_BindIssuedOnce ==
    (call.op = "bind")
    => /\ Cardinality({i \in 1..Len(sys) : sys[i].name = "bind"}) <= 1
       /\ \A i \in 1..Len(sys) :
             (sys[i].name = "bind" /\ Interrupted(sys[i]))
             => (pc = "done" /\ i = Len(sys) /\ result = last_error(EINTR))

C16_Witness ==
    /\ pc = "done"
    /\ call.op = "bind"
    /\ Len(sys) = 2
    /\ Interrupted(sys[2])
    /\ result = last_error(EINTR)

\* C17: the loop of retry returns only with a result that is not an
\* interruption: the invocation whose value it returns did not fail with
\* "interrupted", so it cannot return while every invocation is interrupted.
C17_ReturnsOnlyUninterrupted ==
    (pc = "done" /\ call.op \in RetryOps /\ Invocations # <<>>)
    => ~Interrupted(Invocations[Len(Invocations)])

\* C18: recv or send on a bound endpoint, and sendto with a path that fails
\* encoding, return an error without a system call and leave the endpoints,
\* the caller's buffer, the open descriptors and errno as they were.  A step
\* of an operation records its endpoint and path in call', so the endpoint and
\* the path of the step are read from there; the buffer is any buffer.
C18_RejectedLeavesStateAlone ==
    [][(pc = "idle" /\ call'.self \in DOMAIN socks)
       => LET i == call'.self IN
          \A b \in Bufs :
             /\ ((Recv(i, b) \/ Send(i, b)) /\ origin[i] = "bind")
                => /\ pc' = "done" /\ ~result'.ok /\ sys' = <<>>
                   /\ buf' = b
                   /\ socks' = socks /\ origin' = origin
                   /\ opened' = opened /\ errno' = errno
             /\ (Sendto(i, b, call'.path) /\ ~ValidPath(call'.path))
                => /\ pc' = "done" /\ ~result'.ok /\ sys' = <<>>
                   /\ buf' = b
                   /\ socks' = socks /\ origin' = origin
                   /\ opened' = opened /\ errno' = errno]_vars

C18_Witness ==
    /\ pc = "done"
    /\ call.op = "sendto"
    /\ ~ValidPath(call.path)
    /\ sys = <<>>
    /\ ~result.ok
    /\ Len(buf) = MaxBuf
    /\ \A i \in 1..Len(buf) : buf[i] # 0
    /\ opened # {}

\* C12: an error of kind InvalidInput has one of the four causes (path too
\* long, embedded NUL, wrong connection mode, short send), and every failure
\* of a system call other than an interruption is returned as the OS error
\* with the error code of that call.
C12_ErrorKinds ==
    (pc = "done")
    => /\ (~result.ok /\ result.kind = InvalidInput)
          => \/ /\ result.msg = MsgSunLen
                /\ call.op \in AddrOps /\ Len(call.path) >= SunPathLen
             \/ /\ result.msg = MsgNul
                /\ call.op \in AddrOps /\ HasNul(call.path)
             \/ /\ result.msg = (IF call.op = "recv" THEN MsgRecv ELSE MsgSend)
                /\ call.op \in {"recv", "send"} /\ ~socks[call.self].connected
             \/ /\ result.msg = MsgShort
                /\ call.op \in {"send", "sendto"} /\ sys # <<>>
                /\ sys[Len(sys)].ret \in 0..(Len(buf) - 1)
       /\ \A i \in 1..Len(sys) :
             (sys[i].ret = -1 /\ sys[i].err # EINTR)
             => result = last_error(sys[i].err)

\* C14: two runs of the same call against the same sequence of system call
\* outcomes, started with different leftover errno values, return the same
\* value (with the same error) after the same number of invocations.
C14_LeftoverErrnoIrrelevant ==
    (twin.a.done /\ twin.b.done)
    => /\ twin.a.ret = twin.b.ret
       /\ twin.a.n = twin.b.n
       /\ twin.a.ret = -1 => twin.a.errno = twin.b.errno

====
